---- MODULE Spec2Model ----
(***************************************************************************)
(* Handle lifecycle of the adsi binding layer (object.go): a handle owns   *)
(* one COM interface pointer, guards it with a mutex, and releases it once *)
(* on Close.  Callers are goroutines sharing handles; the platform (COM)   *)
(* answers each call nondeterministically.                                 *)
(***************************************************************************)
EXTENDS Integers, Sequences, FiniteSets, TLC

\* ------------------------------------------------------------------ bounds
NumCallers == 2
MaxHandles == 2
\* Invocations of the object-creation shim.
MaxCreate == 3

Callers == 1..NumCallers
Handles == 1..MaxHandles

\* ------------------------------------------------------------- vocabulary
\* The nil interface pointer; a non-nil pointer names the COM object it
\* points into and the interface it was obtained for.
NilPtr == [obj |-> 0, iid |-> "nil"]

IID_IADs == "IADs"
IID_IADsContainer == "IADsContainer"
IID_IADsComputer == "IADsComputer"
IID_IADsGroup == "IADsGroup"

StringAccessors == {"Name", "Class", "Path", "Parent", "Schema"}
Accessors == StringAccessors \cup {"GUID"}
Casts == {"ToContainer", "ToComputer", "ToGroup"}
Ops == {"Close"} \cup Accessors \cup Casts

ErrNone == "nil"
ErrClosed == "ErrClosed"
ErrInvalidGUID == "ErrInvalidGUID"
\* Errors the platform can produce (HRESULT failures).
PlatformErrors == {"E_FAIL", "E_NOINTERFACE"}

\* Strings the platform returns for the string-valued properties.
PlatformStrings == {"example-object", "LDAP://dc=example"}

\* The nil *ole.GUID.
NilGUID == <<>>

\* What an operation returns beside its error: the string, the GUID or the
\* derived handle, each at its zero value unless the operation sets it.
ZeroRet == [str |-> "", guid |-> NilGUID, handle |-> 0]

\* ------------------------------------------------------- GUID text parsing
HexChars == <<"0","1","2","3","4","5","6","7","8","9","a","b","c","d","e","f">>
HexUpper == <<"0","1","2","3","4","5","6","7","8","9","A","B","C","D","E","F">>

\* The value of one hexadecimal character, -1 when it is none.
HexVal(ch) ==
    IF \E i \in 1..16 : HexChars[i] = ch
    THEN (CHOOSE i \in 1..16 : HexChars[i] = ch) - 1
    ELSE IF \E i \in 1..16 : HexUpper[i] = ch
         THEN (CHOOSE i \in 1..16 : HexUpper[i] = ch) - 1
         ELSE -1

\* Decoding of one hexadecimal field: its digits' values, or failure.
DecodeHex(f) == [ok |-> \A i \in 1..Len(f) : HexVal(f[i]) >= 0,
                 digits |-> [i \in 1..Len(f) |-> HexVal(f[i])]]

\* The GUID made of the five fields, nil when a field does not decode.
FromFields(d1, d2, d3, d4a, d4b) ==
    IF /\ DecodeHex(d1).ok /\ DecodeHex(d2).ok /\ DecodeHex(d3).ok
       /\ DecodeHex(d4a).ok /\ DecodeHex(d4b).ok
    THEN DecodeHex(d1).digits \o DecodeHex(d2).digits \o DecodeHex(d3).digits
         \o DecodeHex(d4a).digits \o DecodeHex(d4b).digits
    ELSE NilGUID

\* The 36-character form 8-4-4-4-12.
Parse36(d) ==
    IF d[9] # "-" \/ d[14] # "-" \/ d[19] # "-" \/ d[24] # "-"
    THEN NilGUID
    ELSE FromFields(SubSeq(d, 1, 8), SubSeq(d, 10, 13), SubSeq(d, 15, 18),
                    SubSeq(d, 20, 23), SubSeq(d, 25, 36))

\* ole.NewGUID: the structured identifier of a GUID text (a sequence of
\* characters), nil when the text does not follow the grammar.
NewGUID(d) ==
    IF Len(d) = 38
    THEN IF d[1] # "{" \/ d[38] # "}" THEN NilGUID ELSE Parse36(SubSeq(d, 2, 37))
    ELSE IF Len(d) = 36
    THEN Parse36(d)
    ELSE IF Len(d) = 32
    THEN FromFields(SubSeq(d, 1, 8), SubSeq(d, 9, 12), SubSeq(d, 13, 16),
                    SubSeq(d, 17, 20), SubSeq(d, 21, 32))
    ELSE NilGUID

\* GUID texts the platform may hand back: well formed ones, and malformed ones.
TxtD1 == <<"6","B","2","9","f","c","4","0">>
TxtD2 == <<"c","a","4","7">>
TxtD3 == <<"1","0","6","7">>
TxtD4a == <<"b","3","1","d">>
TxtD4b == <<"0","0","d","d","0","1","0","6","6","2","d","a">>
TxtPlain == TxtD1 \o <<"-">> \o TxtD2 \o <<"-">> \o TxtD3 \o <<"-">> \o TxtD4a \o <<"-">> \o TxtD4b
TxtBraced == <<"{">> \o TxtPlain \o <<"}">>
TxtBadHex == TxtD1 \o <<"-">> \o <<"c","a","g","7">> \o <<"-">> \o TxtD3 \o <<"-">> \o TxtD4a \o <<"-">> \o TxtD4b
TxtNoDash == TxtD1 \o <<"_">> \o TxtD2 \o <<"-">> \o TxtD3 \o <<"-">> \o TxtD4a \o <<"-">> \o TxtD4b
TxtBadBrace == <<"(">> \o TxtPlain \o <<")">>
TxtShort == <<"6","b","2","9">>
GoodGuidTexts == {TxtPlain, TxtBraced}
BadGuidTexts == {TxtBadHex, TxtNoDash, TxtBadBrace, TxtShort}
GuidTexts == GoodGuidTexts \cup BadGuidTexts

\* ------------------------------------------------------- platform replies
\* A platform call answers with a string or a GUID text, and an error (nil on
\* success); QueryInterface answers with the new pointer or an error.
NoReply == [str |-> "", txt |-> <<>>, err |-> "none"]
StringReplies ==
    {[str |-> s, txt |-> <<>>, err |-> ErrNone] : s \in PlatformStrings}
    \cup {[str |-> "", txt |-> <<>>, err |-> e] : e \in PlatformErrors}
GuidReplies ==
    {[str |-> "", txt |-> t, err |-> ErrNone] : t \in GuidTexts}
    \cup {[str |-> "", txt |-> <<>>, err |-> e] : e \in PlatformErrors}
QueryReplies ==
    {[str |-> "", txt |-> <<>>, err |-> e] : e \in {ErrNone} \cup PlatformErrors}

\* Hosts and class identifiers the creation shim is invoked with ("" is the
\* local host), and the platform's answers to a creation call: a new pointer
\* (a number, 0 is nil) or an error.
Servers == {"", "dc1.example"}
Clsids == {"CLSID_LDAP", "CLSID_WinNT"}
NoDS == [server |-> "", clsid |-> "", reply |-> [ptr |-> 0, err |-> "none"],
         ds |-> 0, err |-> "none"]
CreateReplies(n) ==
    {[ptr |-> n, err |-> ErrNone]} \cup {[ptr |-> 0, err |-> e] : e \in PlatformErrors}

\* ------------------------------------------------------------------ state
VARIABLES
    nh,            \* number of handles constructed so far (handles 1..nh exist)
    iface,         \* iface[h]: the handle's interface pointer (object.iface)
    m,             \* m[h]: the caller holding the handle's mutex, 0 when free
    origin,        \* origin[h]: the handle h was cast from, 0 for NewObject
    given,         \* given[h]: the pointer h was constructed around
    comshim,       \* the process-wide COM initialisation count (comshim)
    refcnt,        \* refcnt[o]: the platform's reference count of COM object o
    released,      \* released[h]: Release calls made through handle h
    relFailed,     \* relFailed[h]: the Release made through h failed
    closeReturned, \* closeReturned[h]: some Close call on h has returned
    served,        \* served[h]: Name on h has returned "example-object", nil
    tracing,       \* whether the history variable served is recorded
    created,       \* the platform's creation calls so far, <<server, clsid>> each
    dsInv,         \* number of invocations of NewIADsOpenDSObject so far
    dsLast,        \* the last invocation: its arguments, the platform's reply
                   \* and what it returned
    pc,            \* pc[c]: where caller c is in its current operation
    op,            \* op[c]: the operation caller c is executing
    hnd,           \* hnd[c]: the handle it was invoked on
    ret,           \* ret[c]: the operation's result value
    err,           \* err[c]: the operation's error
    ncalls,        \* ncalls[c]: platform calls issued by the current operation
    reply,         \* reply[c]: what the platform answered to it
    invAfter,      \* invAfter[c]: invoked after a Close on the handle returned
    lockAfter      \* lockAfter[c]: lock acquired after such a Close returned

hvars == <<nh, iface, m, origin, given, comshim, refcnt, released, relFailed, closeReturned,
          served, tracing, created, dsInv, dsLast>>
cvars == <<pc, op, hnd, ret, err, ncalls, reply, invAfter, lockAfter>>
vars == <<nh, iface, m, origin, given, comshim, refcnt, released, relFailed, closeReturned,
          served, tracing, created, dsInv, dsLast, pc, op, hnd, ret, err, ncalls, reply, invAfter, lockAfter>>

\* closed() as it would be if it tested a released flag instead of the
\* pointer.
closed_ByFlag(h) == released[h] = 1

\* object.closed
closed(h) == iface[h] = NilPtr

\* run: the execution shim hands back the error its closure produced.
run(e) == e

\* No handle has been constructed, no caller is inside an operation and the
\* creation shim has not been invoked.
Start ==
    /\ created = <<>>
    /\ dsInv = 0
    /\ dsLast = NoDS
    /\ nh = 0
    /\ iface = [h \in Handles |-> NilPtr]
    /\ m = [h \in Handles |-> 0]
    /\ origin = [h \in Handles |-> 0]
    /\ given = [h \in Handles |-> NilPtr]
    /\ comshim = 0
    /\ refcnt = [o \in Handles |-> 0]
    /\ released = [h \in Handles |-> 0]
    /\ relFailed = [h \in Handles |-> FALSE]
    /\ closeReturned = [h \in Handles |-> FALSE]
    /\ served = [h \in Handles |-> FALSE]
    /\ pc = [c \in Callers |-> "idle"]
    /\ op = [c \in Callers |-> "none"]
    /\ hnd = [c \in Callers |-> 0]
    /\ ret = [c \in Callers |-> ZeroRet]
    /\ err = [c \in Callers |-> ErrNone]
    /\ ncalls = [c \in Callers |-> 0]
    /\ reply = [c \in Callers |-> NoReply]
    /\ invAfter = [c \in Callers |-> FALSE]
    /\ lockAfter = [c \in Callers |-> FALSE]

Init == Start /\ tracing = FALSE

\* The same start, with the history of served names recorded.
InitTraced == Start /\ tracing = TRUE

\* ------------------------------------------------------------ construction
\* NewObject(iface): comshim.Add(1), then a handle around the given pointer.
\* The caller passes either nil or a pointer it owns one reference of (a
\* freshly created COM object).
NewObject(isNil) ==
    /\ nh < MaxHandles
    /\ nh' = nh + 1
    /\ comshim' = comshim + 1
    /\ iface' = [iface EXCEPT ![nh + 1] =
                    IF isNil THEN NilPtr ELSE [obj |-> nh + 1, iid |-> IID_IADs]]
    /\ given' = [given EXCEPT ![nh + 1] = iface'[nh + 1]]
    /\ refcnt' = [refcnt EXCEPT ![nh + 1] = IF isNil THEN 0 ELSE 1]
    /\ UNCHANGED <<m, origin, released, relFailed, closeReturned, served, tracing, created, dsInv, dsLast>>
    /\ UNCHANGED cvars

\* ------------------------------------------------------- steps of a call
\* A caller that is not inside an operation starts operation o on a handle
\* that has been constructed.
Invoke(c, o, h) ==
    /\ pc[c] = "idle"
    /\ h \in 1..nh
    /\ pc' = [pc EXCEPT ![c] = "lock"]
    /\ op' = [op EXCEPT ![c] = o]
    /\ hnd' = [hnd EXCEPT ![c] = h]
    /\ invAfter' = [invAfter EXCEPT ![c] = closeReturned[h]]
    /\ UNCHANGED hvars
    /\ UNCHANGED <<ret, err, ncalls, reply, lockAfter>>

\* Lock as it would be if it did not wait for the mutex.
Lock_NoWait(c) ==
    /\ pc[c] = "lock"
    /\ m' = [m EXCEPT ![hnd[c]] = c]
    /\ pc' = [pc EXCEPT ![c] = "check"]
    /\ lockAfter' = [lockAfter EXCEPT ![c] = closeReturned[hnd[c]]]
    /\ UNCHANGED <<nh, iface, origin, given, comshim, refcnt, released, relFailed, closeReturned, served, tracing, created, dsInv, dsLast>>
    /\ UNCHANGED <<op, hnd, ret, err, ncalls, reply, invAfter>>

\* Lock as it would be if accessors and casts took the mutex for reading
\* (o.m.RLock()): they wait only for a Close.
Lock_Shared(c) ==
    /\ pc[c] = "lock"
    /\ \/ m[hnd[c]] = 0
       \/ m[hnd[c]] # 0 /\ op[c] # "Close" /\ op[m[hnd[c]]] # "Close"
    /\ m' = [m EXCEPT ![hnd[c]] = c]
    /\ pc' = [pc EXCEPT ![c] = "check"]
    /\ lockAfter' = [lockAfter EXCEPT ![c] = closeReturned[hnd[c]]]
    /\ UNCHANGED <<nh, iface, origin, given, comshim, refcnt, released, relFailed, closeReturned, served, tracing, created, dsInv, dsLast>>
    /\ UNCHANGED <<op, hnd, ret, err, ncalls, reply, invAfter>>

\* o.m.Lock(): blocks until the mutex is free.
Lock(c) ==
    /\ pc[c] = "lock"
    /\ m[hnd[c]] = 0
    /\ m' = [m EXCEPT ![hnd[c]] = c]
    /\ pc' = [pc EXCEPT ![c] = "check"]
    /\ lockAfter' = [lockAfter EXCEPT ![c] = closeReturned[hnd[c]]]
    /\ UNCHANGED <<nh, iface, origin, given, comshim, refcnt, released, relFailed, closeReturned, served, tracing, created, dsInv, dsLast>>
    /\ UNCHANGED <<op, hnd, ret, err, ncalls, reply, invAfter>>

\* The early return as it would be if it reported no error.
ClosedReturn_NoError(c) ==
    /\ pc[c] = "check"
    /\ closed(hnd[c])
    /\ pc' = [pc EXCEPT ![c] = "unlock"]
    /\ ret' = [ret EXCEPT ![c] = ZeroRet]
    /\ err' = [err EXCEPT ![c] = ErrNone]
    /\ UNCHANGED hvars
    /\ UNCHANGED <<op, hnd, ncalls, reply, invAfter, lockAfter>>

\* The early return as it would be if Close deferred comshim.Done() before
\* its closed check.
ClosedReturn_DoneFirst(c) ==
    /\ pc[c] = "check"
    /\ closed(hnd[c])
    /\ pc' = [pc EXCEPT ![c] = "unlock"]
    /\ ret' = [ret EXCEPT ![c] = ZeroRet]
    /\ err' = [err EXCEPT ![c] = IF op[c] = "Close" THEN ErrNone ELSE ErrClosed]
    /\ comshim' = IF op[c] = "Close" THEN comshim - 1 ELSE comshim
    /\ UNCHANGED <<nh, iface, m, origin, given, refcnt, released, relFailed, closeReturned, served, tracing, created, dsInv, dsLast>>
    /\ UNCHANGED <<op, hnd, ncalls, reply, invAfter, lockAfter>>

\* if o.closed() { return zero, ErrClosed }   (Close: a plain return)
ClosedReturn(c) ==
    /\ pc[c] = "check"
    /\ closed(hnd[c])
    /\ pc' = [pc EXCEPT ![c] = "unlock"]
    /\ ret' = [ret EXCEPT ![c] = ZeroRet]
    /\ err' = [err EXCEPT ![c] = IF op[c] = "Close" THEN ErrNone ELSE ErrClosed]
    /\ UNCHANGED hvars
    /\ UNCHANGED <<op, hnd, ncalls, reply, invAfter, lockAfter>>

\* The handle is open: run(...) issues the platform call on o.iface.
IssueCall(c) ==
    /\ pc[c] = "check"
    /\ ~closed(hnd[c])
    /\ pc' = [pc EXCEPT ![c] = "inflight"]
    /\ ncalls' = [ncalls EXCEPT ![c] = ncalls[c] + 1]
    /\ UNCHANGED hvars
    /\ UNCHANGED <<op, hnd, ret, err, reply, invAfter, lockAfter>>

\* A return as it would be without the deferred Unlock: the caller returns
\* and the mutex stays locked.
Unlock_Missing(c) ==
    /\ pc[c] = "unlock"
    /\ closeReturned' = [closeReturned EXCEPT ![hnd[c]] = @ \/ op[c] = "Close"]
    /\ pc' = [pc EXCEPT ![c] = "idle"]
    /\ op' = [op EXCEPT ![c] = "none"]
    /\ hnd' = [hnd EXCEPT ![c] = 0]
    /\ ret' = [ret EXCEPT ![c] = ZeroRet]
    /\ err' = [err EXCEPT ![c] = ErrNone]
    /\ ncalls' = [ncalls EXCEPT ![c] = 0]
    /\ reply' = [reply EXCEPT ![c] = NoReply]
    /\ invAfter' = [invAfter EXCEPT ![c] = FALSE]
    /\ lockAfter' = [lockAfter EXCEPT ![c] = FALSE]
    /\ UNCHANGED <<nh, iface, m, origin, given, comshim, refcnt, released, relFailed,
                   served, tracing, created, dsInv, dsLast>>

\* defer o.m.Unlock(), and the return to the caller, which has ret[c] and
\* err[c] as the operation's results; the caller is then free to start its
\* next operation.
Unlock(c) ==
    /\ pc[c] = "unlock"
    /\ m' = [m EXCEPT ![hnd[c]] = 0]
    /\ closeReturned' = [closeReturned EXCEPT ![hnd[c]] = @ \/ op[c] = "Close"]
    /\ served' = [served EXCEPT ![hnd[c]] =
                     @ \/ (tracing /\ op[c] = "Name" /\ err[c] = ErrNone
                             /\ ret[c].str = "example-object")]
    /\ pc' = [pc EXCEPT ![c] = "idle"]
    /\ op' = [op EXCEPT ![c] = "none"]
    /\ hnd' = [hnd EXCEPT ![c] = 0]
    /\ ret' = [ret EXCEPT ![c] = ZeroRet]
    /\ err' = [err EXCEPT ![c] = ErrNone]
    /\ ncalls' = [ncalls EXCEPT ![c] = 0]
    /\ reply' = [reply EXCEPT ![c] = NoReply]
    /\ invAfter' = [invAfter EXCEPT ![c] = FALSE]
    /\ lockAfter' = [lockAfter EXCEPT ![c] = FALSE]
    /\ UNCHANGED <<nh, iface, origin, given, comshim, refcnt, released, relFailed, tracing,
                   created, dsInv, dsLast>>

\* ------------------------------------------------------------------ Close
\* o.iface.Release() inside run: the platform drops one reference of the
\* object unless the release fails; the closure returns nil either way.
ReleaseReturn(c, ok) ==
    /\ pc[c] = "inflight"
    /\ released' = [released EXCEPT ![hnd[c]] = @ + 1]
    /\ relFailed' = [relFailed EXCEPT ![hnd[c]] = ~ok]
    /\ refcnt' = [refcnt EXCEPT ![iface[hnd[c]].obj] = IF ok THEN @ - 1 ELSE @]
    /\ pc' = [pc EXCEPT ![c] = "null"]
    /\ UNCHANGED <<nh, iface, m, origin, given, comshim, closeReturned, served, tracing, created, dsInv, dsLast>>
    /\ UNCHANGED <<op, hnd, ret, err, ncalls, reply, invAfter, lockAfter>>

\* Close as it would be if it left the pointer in place.
NullIface_Kept(c) ==
    /\ pc[c] = "null"
    /\ pc' = [pc EXCEPT ![c] = "shimdone"]
    /\ UNCHANGED hvars
    /\ UNCHANGED <<op, hnd, ret, err, ncalls, reply, invAfter, lockAfter>>

\* Close as it would be if it nulled the pointer only after a release that
\* succeeded.
NullIface_OnSuccess(c) ==
    /\ pc[c] = "null"
    /\ iface' = [iface EXCEPT ![hnd[c]] = IF relFailed[hnd[c]] THEN @ ELSE NilPtr]
    /\ pc' = [pc EXCEPT ![c] = "shimdone"]
    /\ UNCHANGED <<nh, m, origin, given, comshim, refcnt, released, relFailed, closeReturned, served, tracing, created, dsInv, dsLast>>
    /\ UNCHANGED <<op, hnd, ret, err, ncalls, reply, invAfter, lockAfter>>

\* o.iface = nil
NullIface(c) ==
    /\ pc[c] = "null"
    /\ iface' = [iface EXCEPT ![hnd[c]] = NilPtr]
    /\ pc' = [pc EXCEPT ![c] = "shimdone"]
    /\ UNCHANGED <<nh, m, origin, given, comshim, refcnt, released, relFailed, closeReturned, served, tracing, created, dsInv, dsLast>>
    /\ UNCHANGED <<op, hnd, ret, err, ncalls, reply, invAfter, lockAfter>>

\* Close as it would be with its two defers in the other order: the mutex is
\* unlocked where comshim.Done() should run.
ShimDone_UnlockFirst(c) ==
    /\ pc[c] = "shimdone"
    /\ m' = [m EXCEPT ![hnd[c]] = 0]
    /\ pc' = [pc EXCEPT ![c] = "unlock"]
    /\ UNCHANGED <<nh, iface, origin, given, comshim, refcnt, released, relFailed, closeReturned, served, tracing, created, dsInv, dsLast>>
    /\ UNCHANGED <<op, hnd, ret, err, ncalls, reply, invAfter, lockAfter>>

\* defer comshim.Done()
ShimDone(c) ==
    /\ pc[c] = "shimdone"
    /\ comshim' = comshim - 1
    /\ pc' = [pc EXCEPT ![c] = "unlock"]
    /\ UNCHANGED <<nh, iface, m, origin, given, refcnt, released, relFailed, closeReturned, served, tracing, created, dsInv, dsLast>>
    /\ UNCHANGED <<op, hnd, ret, err, ncalls, reply, invAfter, lockAfter>>

Close(c) ==
    /\ op[c] = "Close"
    /\ \/ Lock(c)
       \/ ClosedReturn(c)
       \/ IssueCall(c)
       \/ \E ok \in BOOLEAN : ReleaseReturn(c, ok)
       \/ NullIface(c)
       \/ ShimDone(c)
       \/ Unlock(c)

\* -------------------------------------------------------------- accessors
\* A string accessor as it would be if a platform failure invalidated the
\* handle.
StringReturn_Invalidate(c, r) ==
    /\ pc[c] = "inflight"
    /\ reply' = [reply EXCEPT ![c] = r]
    /\ ret' = [ret EXCEPT ![c] = [ZeroRet EXCEPT !.str = r.str]]
    /\ err' = [err EXCEPT ![c] = run(r.err)]
    /\ pc' = [pc EXCEPT ![c] = "unlock"]
    /\ iface' = [iface EXCEPT ![hnd[c]] = IF r.err # ErrNone THEN NilPtr ELSE @]
    /\ UNCHANGED <<nh, m, origin, given, comshim, refcnt, released, relFailed, closeReturned, served, tracing, created, dsInv, dsLast>>
    /\ UNCHANGED <<op, hnd, ncalls, invAfter, lockAfter>>

\* A string accessor as it would be if it dropped run's result.
StringReturn_Absorbed(c, r) ==
    /\ pc[c] = "inflight"
    /\ reply' = [reply EXCEPT ![c] = r]
    /\ ret' = [ret EXCEPT ![c] = [ZeroRet EXCEPT !.str = r.str]]
    /\ err' = [err EXCEPT ![c] = ErrNone]
    /\ pc' = [pc EXCEPT ![c] = "unlock"]
    /\ UNCHANGED hvars
    /\ UNCHANGED <<op, hnd, ncalls, invAfter, lockAfter>>

\* A string accessor as it would be if its closure declared the value anew
\* (name, err := ...), leaving the named result at its zero value.
StringReturn_Shadowed(c, r) ==
    /\ pc[c] = "inflight"
    /\ reply' = [reply EXCEPT ![c] = r]
    /\ ret' = [ret EXCEPT ![c] = ZeroRet]
    /\ err' = [err EXCEPT ![c] = run(r.err)]
    /\ pc' = [pc EXCEPT ![c] = "unlock"]
    /\ UNCHANGED hvars
    /\ UNCHANGED <<op, hnd, ncalls, invAfter, lockAfter>>

\* The closure of a string accessor: value and error as the platform gave
\* them; run's result becomes the accessor's error.
StringReturn(c, r) ==
    /\ pc[c] = "inflight"
    /\ reply' = [reply EXCEPT ![c] = r]
    /\ ret' = [ret EXCEPT ![c] = [ZeroRet EXCEPT !.str = r.str]]
    /\ err' = [err EXCEPT ![c] = run(r.err)]
    /\ pc' = [pc EXCEPT ![c] = "unlock"]
    /\ UNCHANGED hvars
    /\ UNCHANGED <<op, hnd, ncalls, invAfter, lockAfter>>

\* The closure of GUID as it would be without its nil check on the parsed
\* identifier.
GUIDClosureErr_NoNilCheck(r) == IF r.err # ErrNone THEN r.err ELSE ErrNone

\* The closure of GUID: the platform's error if it failed, else the parsed
\* text, and ErrInvalidGUID when the text does not parse.
GUIDClosureErr(r) ==
    IF r.err # ErrNone THEN r.err
    ELSE IF NewGUID(r.txt) = NilGUID THEN ErrInvalidGUID
    ELSE ErrNone

GUIDClosureVal(r) == IF r.err # ErrNone THEN NilGUID ELSE NewGUID(r.txt)

GUIDReturn(c, r) ==
    /\ pc[c] = "inflight"
    /\ reply' = [reply EXCEPT ![c] = r]
    /\ ret' = [ret EXCEPT ![c] = [ZeroRet EXCEPT !.guid = GUIDClosureVal(r)]]
    /\ err' = [err EXCEPT ![c] = run(GUIDClosureErr(r))]
    /\ pc' = [pc EXCEPT ![c] = "unlock"]
    /\ UNCHANGED hvars
    /\ UNCHANGED <<op, hnd, ncalls, invAfter, lockAfter>>

Name(c) ==
    /\ op[c] = "Name"
    /\ \/ Lock(c)
       \/ ClosedReturn(c)
       \/ IssueCall(c)
       \/ \E r \in StringReplies : StringReturn(c, r)
       \/ Unlock(c)

Class(c) ==
    /\ op[c] = "Class"
    /\ \/ Lock(c)
       \/ ClosedReturn(c)
       \/ IssueCall(c)
       \/ \E r \in StringReplies : StringReturn(c, r)
       \/ Unlock(c)

GUID(c) ==
    /\ op[c] = "GUID"
    /\ \/ Lock(c)
       \/ ClosedReturn(c)
       \/ IssueCall(c)
       \/ \E r \in GuidReplies : GUIDReturn(c, r)
       \/ Unlock(c)

Path(c) ==
    /\ op[c] = "Path"
    /\ \/ Lock(c)
       \/ ClosedReturn(c)
       \/ IssueCall(c)
       \/ \E r \in StringReplies : StringReturn(c, r)
       \/ Unlock(c)

Parent(c) ==
    /\ op[c] = "Parent"
    /\ \/ Lock(c)
       \/ ClosedReturn(c)
       \/ IssueCall(c)
       \/ \E r \in StringReplies : StringReturn(c, r)
       \/ Unlock(c)

Schema(c) ==
    /\ op[c] = "Schema"
    /\ \/ Lock(c)
       \/ ClosedReturn(c)
       \/ IssueCall(c)
       \/ \E r \in StringReplies : StringReturn(c, r)
       \/ Unlock(c)

\* ------------------------------------------------------------------ casts
\* The constructor of a typed facade (NewContainer, NewComputer, NewGroup):
\* comshim.Add(1), then a new handle around the pointer it is given.
NewTyped(h, ptr, from) ==
    /\ nh' = h
    /\ comshim' = comshim + 1
    /\ iface' = [iface EXCEPT ![h] = ptr]
    /\ origin' = [origin EXCEPT ![h] = from]
    /\ given' = [given EXCEPT ![h] = ptr]

NewContainer(h, ptr, from) == NewTyped(h, ptr, from)
NewComputer(h, ptr, from) == NewTyped(h, ptr, from)
NewGroup(h, ptr, from) == NewTyped(h, ptr, from)

\* A failed QueryInterface as it would be if the closure swallowed the error.
QueryFail_Swallowed(c, r) ==
    /\ pc[c] = "inflight"
    /\ r.err # ErrNone
    /\ reply' = [reply EXCEPT ![c] = r]
    /\ ret' = [ret EXCEPT ![c] = ZeroRet]
    /\ err' = [err EXCEPT ![c] = ErrNone]
    /\ pc' = [pc EXCEPT ![c] = "unlock"]
    /\ UNCHANGED hvars
    /\ UNCHANGED <<op, hnd, ncalls, invAfter, lockAfter>>

\* A cast as it would be if a failed QueryInterface invalidated the source
\* handle.
QueryFail_Closes(c, r) ==
    /\ pc[c] = "inflight"
    /\ r.err # ErrNone
    /\ reply' = [reply EXCEPT ![c] = r]
    /\ ret' = [ret EXCEPT ![c] = ZeroRet]
    /\ err' = [err EXCEPT ![c] = run(r.err)]
    /\ pc' = [pc EXCEPT ![c] = "unlock"]
    /\ iface' = [iface EXCEPT ![hnd[c]] = NilPtr]
    /\ UNCHANGED <<nh, m, origin, given, comshim, refcnt, released, relFailed, closeReturned, served, tracing, created, dsInv, dsLast>>
    /\ UNCHANGED <<op, hnd, ncalls, invAfter, lockAfter>>

\* QueryInterface failed: the closure returns the platform's error and no
\* handle is constructed.
QueryFail(c, r) ==
    /\ pc[c] = "inflight"
    /\ r.err # ErrNone
    /\ reply' = [reply EXCEPT ![c] = r]
    /\ ret' = [ret EXCEPT ![c] = ZeroRet]
    /\ err' = [err EXCEPT ![c] = run(r.err)]
    /\ pc' = [pc EXCEPT ![c] = "unlock"]
    /\ UNCHANGED hvars
    /\ UNCHANGED <<op, hnd, ncalls, invAfter, lockAfter>>

\* A cast as it would be if it wrapped the source's own pointer instead of
\* querying the platform: no reference is added for the new handle.
QueryOk_Borrowed(c, r) ==
    /\ pc[c] = "inflight"
    /\ r.err = ErrNone
    /\ nh < MaxHandles
    /\ reply' = [reply EXCEPT ![c] = r]
    /\ refcnt' = refcnt
    /\ ret' = [ret EXCEPT ![c] = [ZeroRet EXCEPT !.handle = nh + 1]]
    /\ err' = [err EXCEPT ![c] = run(ErrNone)]
    /\ pc' = [pc EXCEPT ![c] = "unlock"]
    /\ UNCHANGED <<m, released, relFailed, closeReturned, served, tracing, created, dsInv, dsLast>>
    /\ UNCHANGED <<op, hnd, ncalls, invAfter, lockAfter>>

\* QueryInterface succeeded: the platform hands out a pointer to the asked
\* interface of the same object, holding one more reference of it.
QueryOk(c, r) ==
    /\ pc[c] = "inflight"
    /\ r.err = ErrNone
    /\ nh < MaxHandles
    /\ reply' = [reply EXCEPT ![c] = r]
    /\ refcnt' = [refcnt EXCEPT ![iface[hnd[c]].obj] = @ + 1]
    /\ ret' = [ret EXCEPT ![c] = [ZeroRet EXCEPT !.handle = nh + 1]]
    /\ err' = [err EXCEPT ![c] = run(ErrNone)]
    /\ pc' = [pc EXCEPT ![c] = "unlock"]
    /\ UNCHANGED <<m, released, relFailed, closeReturned, served, tracing, created, dsInv, dsLast>>
    /\ UNCHANGED <<op, hnd, ncalls, invAfter, lockAfter>>

ToContainer(c) ==
    /\ op[c] = "ToContainer"
    /\ \/ Lock(c)
       \/ ClosedReturn(c)
       \/ IssueCall(c)
       \/ \E r \in QueryReplies : QueryFail(c, r)
       \/ \E r \in QueryReplies :
             /\ QueryOk(c, r)
             /\ NewContainer(nh + 1, [obj |-> iface[hnd[c]].obj, iid |-> IID_IADsContainer], hnd[c])
       \/ Unlock(c)

ToComputer(c) ==
    /\ op[c] = "ToComputer"
    /\ \/ Lock(c)
       \/ ClosedReturn(c)
       \/ IssueCall(c)
       \/ \E r \in QueryReplies : QueryFail(c, r)
       \/ \E r \in QueryReplies :
             /\ QueryOk(c, r)
             /\ NewComputer(nh + 1, [obj |-> iface[hnd[c]].obj, iid |-> IID_IADsComputer], hnd[c])
       \/ Unlock(c)

ToGroup(c) ==
    /\ op[c] = "ToGroup"
    /\ \/ Lock(c)
       \/ ClosedReturn(c)
       \/ IssueCall(c)
       \/ \E r \in QueryReplies : QueryFail(c, r)
       \/ \E r \in QueryReplies :
             /\ QueryOk(c, r)
             /\ NewGroup(nh + 1, [obj |-> iface[hnd[c]].obj, iid |-> IID_IADsGroup], hnd[c])
       \/ Unlock(c)

\* ---------------------------------------------------- object-creation shim
\* The shim as it would be if it kept the classes already opened and answered
\* from them.
NewIADsOpenDSObject_Cached(server, clsid, r) ==
    /\ dsInv < MaxCreate
    /\ dsInv' = dsInv + 1
    /\ created' = IF \E i \in 1..Len(created) : created[i] = <<server, clsid>>
                  THEN created
                  ELSE Append(created, <<server, clsid>>)
    /\ dsLast' = [server |-> server, clsid |-> clsid, reply |-> r,
                  ds |-> r.ptr, err |-> r.err]
    /\ UNCHANGED <<nh, iface, m, origin, given, comshim, refcnt, released, relFailed,
                   closeReturned, served, tracing>>
    /\ UNCHANGED cvars

\* NewIADsOpenDSObject(server, clsid): one comutil.CreateRemoteObject call,
\* whose pointer (cast) and error are returned as they are.
NewIADsOpenDSObject(server, clsid, r) ==
    /\ dsInv < MaxCreate
    /\ dsInv' = dsInv + 1
    /\ created' = Append(created, <<server, clsid>>)
    /\ dsLast' = [server |-> server, clsid |-> clsid, reply |-> r,
                  ds |-> r.ptr, err |-> r.err]
    /\ UNCHANGED <<nh, iface, m, origin, given, comshim, refcnt, released, relFailed,
                   closeReturned, served, tracing>>
    /\ UNCHANGED cvars

\* ---------------------------------------------------------- specification
Next ==
    \/ \E isNil \in BOOLEAN : NewObject(isNil)
    \/ \E c \in Callers, o \in Ops, h \in Handles : Invoke(c, o, h)
    \/ \E c \in Callers : Close(c)
    \/ \E c \in Callers : Name(c)
    \/ \E c \in Callers : Class(c)
    \/ \E c \in Callers : GUID(c)
    \/ \E c \in Callers : Path(c)
    \/ \E c \in Callers : Parent(c)
    \/ \E c \in Callers : Schema(c)
    \/ \E c \in Callers : ToContainer(c)
    \/ \E c \in Callers : ToComputer(c)
    \/ \E c \in Callers : ToGroup(c)

Spec == Init /\ [][Next]_vars

\* Every step of caller c after its invocation, up to and including its
\* return.
CallerStep(c) ==
    \/ Close(c) \/ Name(c) \/ Class(c) \/ GUID(c) \/ Path(c) \/ Parent(c)
    \/ Schema(c) \/ ToContainer(c) \/ ToComputer(c) \/ ToGroup(c)

\* Scheduling: a caller that can step eventually steps, platform calls
\* included, and sync.RWMutex does not starve a waiter.
Fairness ==
    \A c \in Callers : WF_vars(CallerStep(c)) /\ SF_vars(Lock(c))

FairSpec == Spec /\ Fairness

\* The same program, observed with the history variable served.
SpecTraced == InitTraced /\ [][Next]_vars

\* The object-creation shim of package api, invoked any number of times.
NextDS ==
    \E server \in Servers, clsid \in Clsids :
        \E r \in CreateReplies(Len(created) + 1) :
            NewIADsOpenDSObject(server, clsid, r)

SpecDS == Init /\ [][NextDS]_vars

\* =================================================================== claims

\* C1: once a Close call on a handle has returned, every accessor (Name,
\* Class, GUID, Path, Parent, Schema) invoked on it afterwards issues no
\* platform call and returns ErrClosed with the zero result value.
C1_AccessorAfterClose ==
    \A c \in Callers :
        (op[c] \in Accessors /\ invAfter[c]) =>
            /\ ncalls[c] = 0
            /\ pc[c] # "inflight"
            /\ pc[c] = "unlock" => (err[c] = ErrClosed /\ ret[c] = ZeroRet)

\* An accessor invoked after the Close of an open handle returned is about
\* to return.
C1_Witness ==
    \E c \in Callers :
        /\ op[c] = "GUID" /\ invAfter[c] /\ pc[c] = "unlock"
        /\ released[hnd[c]] = 1 /\ err[c] = ErrClosed

\* A Close call that found its handle closed: the step of its closed check,
\* and its return.
NoopCloseStep(c) ==
    /\ op[c] = "Close"
    /\ pc'[c] # pc[c]
    /\ \/ pc[c] = "check" /\ closed(hnd[c])
       \/ pc[c] = "unlock" /\ ncalls[c] = 0

\* C2: Close on an already closed handle is a no-op: it fails nothing,
\* invokes no Release, does not decrement the COM reference count and leaves
\* the handle closed, so the handles' state after it is the state before it.
C2_CloseIdempotent ==
    [][\A c \in Callers :
          NoopCloseStep(c) =>
              /\ pc'[c] \in {"unlock", "idle"}
              /\ pc'[c] = "unlock" => (err'[c] = ErrNone /\ ncalls'[c] = 0)
              /\ iface'[hnd[c]] = NilPtr
              /\ <<nh, iface, given, origin, comshim, refcnt, released, relFailed>>' =
                 <<nh, iface, given, origin, comshim, refcnt, released, relFailed>>]_vars

\* A second Close on a handle that a first Close released is returning.
C2_Witness ==
    \E c \in Callers :
        /\ op[c] = "Close" /\ pc[c] = "unlock" /\ ncalls[c] = 0
        /\ closeReturned[hnd[c]] /\ released[hnd[c]] = 1

\* C3: whatever the interleaving of the callers, Release is invoked at most
\* once through a handle, and exactly once as soon as a Close call has
\* returned on a handle constructed around a non-nil pointer.
C3_ReleaseOnce ==
    \A h \in Handles :
        /\ released[h] <= 1
        /\ (closeReturned[h] /\ given[h] # NilPtr) => released[h] = 1

\* A Close has returned on a released handle while another caller's Close
\* holds the lock of that handle.
C3_Witness ==
    \E h \in Handles, c \in Callers :
        /\ closeReturned[h] /\ released[h] = 1
        /\ op[c] = "Close" /\ hnd[c] = h /\ pc[c] = "check"

\* C4: a platform call in flight on a handle implies that the handle's
\* interface has not been released and that no Close on it has returned;
\* an accessor or cast that acquired the lock after a Close returned issues
\* no platform call and returns ErrClosed.
C4_NoCallAfterRelease ==
    \A c \in Callers :
        /\ pc[c] = "inflight" =>
               /\ released[hnd[c]] = 0
               /\ ~closeReturned[hnd[c]]
               /\ ~closed(hnd[c])
        /\ (lockAfter[c] /\ op[c] \in Accessors \cup Casts) =>
               /\ ncalls[c] = 0
               /\ pc[c] = "unlock" => err[c] = ErrClosed

\* An accessor invoked while the handle was open, which got the lock only
\* after another caller's Close had released the handle and returned.
C4_Witness ==
    \E c \in Callers :
        /\ op[c] \in Accessors /\ pc[c] = "unlock"
        /\ lockAfter[c] /\ ~invAfter[c]
        /\ released[hnd[c]] = 1 /\ err[c] = ErrClosed

\* A step of a Close call of caller c.
CloseStep(c) == op[c] = "Close" /\ pc'[c] # pc[c]

\* C5: a handle obtained by a cast and its source are independent: no step
\* of a Close on one of them changes the other's pointer or releases the
\* other's interface; a handle's interface is released only by that handle's
\* own Close, once; and the COM object of a handle that has not been
\* released always holds a reference.
C5_CastIndependent ==
    [][/\ \A s, d \in Handles, c \in Callers :
             (origin[d] = s /\ CloseStep(c)) =>
                 /\ hnd[c] = s => (iface'[d] = iface[d] /\ released'[d] = released[d])
                 /\ hnd[c] = d => (iface'[s] = iface[s] /\ released'[s] = released[s])
       /\ \A h \in Handles :
             released'[h] # released[h] =>
                 /\ released'[h] = 1
                 /\ \E c \in Callers : CloseStep(c) /\ hnd[c] = h /\ pc[c] = "inflight"
       /\ \A h \in Handles :
             (iface'[h] # NilPtr /\ released'[h] = 0) =>
                 refcnt'[iface'[h].obj] >= 1]_vars

\* The source of a cast has been closed and released while the derived
\* handle is still open.
C5_Witness ==
    \E s, d \in Handles :
        /\ origin[d] = s /\ closeReturned[s] /\ released[s] = 1 /\ ~relFailed[s]
        /\ ~closed(d) /\ released[d] = 0

\* C6: a constructed handle is OPEN (its pointer is the one it was built
\* around) or CLOSED (nil pointer); a closed handle never becomes open
\* again, and an open handle becomes closed only by the nulling step of a
\* Close on it.
C6_Monotone ==
    [][\A h \in Handles :
          /\ iface'[h] \in {NilPtr, given'[h]}
          /\ (h <= nh /\ closed(h)) => iface'[h] = NilPtr
          /\ (~closed(h) /\ iface'[h] = NilPtr) =>
                 \E c \in Callers :
                     /\ op[c] = "Close" /\ hnd[c] = h
                     /\ pc[c] = "null" /\ pc'[c] = "shimdone"]_vars

\* A handle that was closed by Close is the target of later operations,
\* one of them returning.
C6_Witness ==
    \E c \in Callers :
        /\ op[c] \in Casts /\ pc[c] = "unlock"
        /\ closed(hnd[c]) /\ released[hnd[c]] = 1 /\ invAfter[c]

\* Every constructed handle has been closed (a Close on it has returned) and
\* no operation is under way.
AllClosed ==
    /\ nh >= 1
    /\ \A h \in 1..nh : closeReturned[h]
    /\ \A c \in Callers : pc[c] = "idle"

\* C7: the process-wide COM count is at least one while a handle is open,
\* and back at its initial value (0) once every constructed handle has been
\* closed.
C7_ShimBalanced ==
    /\ (\E h \in Handles : ~closed(h)) => comshim >= 1
    /\ AllClosed => comshim = 0

\* C8: a Close that found the handle open leaves it closed whether the
\* release succeeded or failed, hands no error to its caller, and a failed
\* release is never retried: no second Release goes through the handle.
C8_ClosedDespiteFailure ==
    /\ \A c \in Callers :
           (op[c] = "Close" /\ pc[c] \in {"shimdone", "unlock"} /\ ncalls[c] = 1) =>
               (closed(hnd[c]) /\ err[c] = ErrNone /\ ret[c] = ZeroRet)
    /\ \A h \in Handles :
           /\ closeReturned[h] => closed(h)
           /\ relFailed[h] => released[h] = 1

\* A later Close is returning from a handle whose release had failed.
C8_Witness ==
    \E c \in Callers :
        /\ op[c] = "Close" /\ pc[c] = "unlock" /\ ncalls[c] = 0
        /\ relFailed[hnd[c]] /\ closeReturned[hnd[c]] /\ closed(hnd[c])

\* C9: when the platform's GUID text is malformed, GUID returns a nil
\* identifier with ErrInvalidGUID; when the platform call fails, it returns
\* the platform's error, which is never ErrInvalidGUID.
C9_InvalidGuid ==
    \A c \in Callers :
        (op[c] = "GUID" /\ pc[c] = "unlock" /\ ncalls[c] = 1) =>
            /\ (reply[c].err = ErrNone /\ reply[c].txt \in BadGuidTexts) =>
                   (ret[c].guid = NilGUID /\ err[c] = ErrInvalidGUID)
            /\ reply[c].err # ErrNone =>
                   /\ err[c] = reply[c].err
                   /\ err[c] \in PlatformErrors
                   /\ err[c] # ErrInvalidGUID
                   /\ ret[c].guid = NilGUID

\* GUID is returning after the platform handed back a text with a character
\* that is no hexadecimal digit.
C9_Witness ==
    \E c \in Callers :
        /\ op[c] = "GUID" /\ pc[c] = "unlock"
        /\ reply[c].err = ErrNone /\ reply[c].txt = TxtBadHex
        /\ err[c] = ErrInvalidGUID

\* C10: when QueryInterface fails on an open handle, the cast returns the
\* platform's error and a nil handle, constructs no handle, leaves the COM
\* count unchanged and leaves the source handle open.
C10_CastFailure ==
    [][\A c \in Callers :
          (op[c] \in Casts /\ pc[c] = "inflight" /\ pc'[c] = "unlock"
              /\ reply'[c].err # ErrNone) =>
              /\ err'[c] = reply'[c].err
              /\ err'[c] \in PlatformErrors
              /\ ret'[c] = ZeroRet
              /\ nh' = nh /\ comshim' = comshim /\ refcnt' = refcnt
              /\ iface' = iface
              /\ iface'[hnd[c]] # NilPtr]_vars

\* A cast is returning the platform's refusal of the interface.
C10_Witness ==
    \E c \in Callers :
        /\ op[c] = "ToGroup" /\ pc[c] = "unlock" /\ ncalls[c] = 1
        /\ err[c] = "E_NOINTERFACE" /\ ~closed(hnd[c])

\* C11: when the platform call of an accessor fails on an open handle, the
\* accessor returns exactly the platform's error, after exactly one platform
\* call, never ErrClosed and never a nil error.
C11_PlatformErrorVerbatim ==
    \A c \in Callers :
        (op[c] \in Accessors /\ pc[c] = "unlock" /\ reply[c].err \in PlatformErrors) =>
            /\ err[c] = reply[c].err
            /\ err[c] \notin {ErrNone, ErrClosed, ErrInvalidGUID}
            /\ ncalls[c] = 1

\* Path is returning after its platform call failed on an open handle.
C11_Witness ==
    \E c \in Callers :
        /\ op[c] = "Path" /\ pc[c] = "unlock" /\ ~closed(hnd[c])
        /\ reply[c].err = "E_FAIL" /\ err[c] = "E_FAIL" /\ ncalls[c] = 1

\* C12: on one handle, an accessor whose platform call succeeds returns the
\* platform's value with a nil error, and does so only while no Close on the
\* handle has returned; an accessor invoked after a Close returned gets
\* ErrClosed and nothing from the platform.
C12_EndToEnd ==
    \A c \in Callers :
        (op[c] \in StringAccessors /\ pc[c] = "unlock") =>
            /\ reply[c].err = ErrNone =>
                   /\ ret[c].str = reply[c].str /\ ret[c].str \in PlatformStrings
                   /\ err[c] = ErrNone
                   /\ ~invAfter[c] /\ ~closeReturned[hnd[c]]
            /\ invAfter[c] =>
                   (err[c] = ErrClosed /\ ret[c] = ZeroRet /\ reply[c] = NoReply)

\* Name returned "example-object" on a handle, a Close on it returned, and
\* Name invoked again is returning ErrClosed.
C12_Witness ==
    \E c \in Callers :
        /\ op[c] = "Name" /\ pc[c] = "unlock" /\ invAfter[c]
        /\ served[hnd[c]] /\ released[hnd[c]] = 1
        /\ err[c] = ErrClosed

\* C13: every invocation of NewIADsOpenDSObject makes exactly one creation
\* call, for the host and class it was given; it returns the platform's
\* pointer and error unchanged, and answers nothing from earlier invocations:
\* n invocations give n creation calls.
C13_CreationPassThrough ==
    /\ Len(created) = dsInv
    /\ dsInv >= 1 =>
           /\ created[Len(created)] = <<dsLast.server, dsLast.clsid>>
           /\ dsLast.err = dsLast.reply.err
           /\ dsLast.ds = dsLast.reply.ptr

\* The shim was invoked twice for the same host and class, and the second
\* creation failed.
C13_Witness ==
    /\ dsInv = 2 /\ Len(created) = 2 /\ created[1] = created[2]
    /\ dsLast.err = "E_FAIL" /\ dsLast.ds = 0

\* Caller c is inside the critical section of handle h: between its
\* o.m.Lock() and its o.m.Unlock().
InCritical(c, h) ==
    hnd[c] = h /\ pc[c] \in {"check", "inflight", "null", "shimdone", "unlock"}

\* C14: operations on one handle are mutually exclusive: at most one caller
\* is inside the handle's critical section, it is the holder of the mutex,
\* and so at most one platform call per handle is in flight, accessors
\* included.
C14_MutualExclusion ==
    \A h \in Handles :
        /\ \A c, d \in Callers : (InCritical(c, h) /\ InCritical(d, h)) => c = d
        /\ \A c \in Callers : InCritical(c, h) <=> m[h] = c
        /\ Cardinality({c \in Callers : hnd[c] = h /\ pc[c] = "inflight"}) <= 1

\* An accessor's platform call is in flight on a handle while another
\* caller's accessor waits for the handle's mutex.
C14_Witness ==
    \E c, d \in Callers :
        /\ c # d /\ hnd[c] = hnd[d]
        /\ op[c] = "Name" /\ pc[c] = "inflight"
        /\ op[d] = "Class" /\ pc[d] = "lock"

\* A step of a cast that found its handle closed: its closed check, or its
\* return.
ClosedCastStep(c) ==
    /\ op[c] \in Casts
    /\ pc'[c] # pc[c]
    /\ \/ pc[c] = "check" /\ closed(hnd[c])
       \/ pc[c] = "unlock" /\ ncalls[c] = 0

\* C15: a cast on a closed handle returns a nil handle and ErrClosed, issues
\* no QueryInterface call, constructs no handle and leaves the COM count and
\* the platform's reference counts unchanged.
C15_CastOnClosed ==
    [][\A c \in Callers :
          ClosedCastStep(c) =>
              /\ pc[c] = "check" =>
                     /\ pc'[c] = "unlock"
                     /\ err'[c] = ErrClosed /\ ret'[c] = ZeroRet
                     /\ ncalls'[c] = 0 /\ reply'[c] = NoReply
              /\ pc[c] = "unlock" =>
                     (err[c] = ErrClosed /\ ret[c].handle = 0 /\ pc'[c] = "idle")
              /\ <<nh, iface, given, origin, comshim, refcnt, released>>' =
                 <<nh, iface, given, origin, comshim, refcnt, released>>]_vars

\* ToContainer is returning ErrClosed from a handle that Close released.
C15_Witness ==
    \E c \in Callers :
        /\ op[c] = "ToContainer" /\ pc[c] = "unlock" /\ ncalls[c] = 0
        /\ released[hnd[c]] = 1 /\ closed(hnd[c])
        /\ err[c] = ErrClosed /\ ret[c].handle = 0

\* The handles whose comshim.Done() has not run: those open, those built
\* around nil, and those whose Close is about to run it.
ShimHeld ==
    {h \in 1..nh : \/ ~closed(h)
                    \/ given[h] = NilPtr
                    \/ \E c \in Callers : hnd[c] = h /\ pc[c] = "shimdone"}

\* C16: a Close that finds the handle open first completes the Release,
\* then nulls the pointer, then decrements the COM count, and only then
\* unlocks: the count still holds the handle while its Release is pending,
\* and the closer holds the mutex from the Release to its return.
C16_CloseOrder ==
    /\ \A c \in Callers :
           op[c] = "Close" =>
               /\ pc[c] = "inflight" =>
                      (released[hnd[c]] = 0 /\ ~closed(hnd[c]) /\ hnd[c] \in ShimHeld)
               /\ pc[c] = "null" =>
                      (released[hnd[c]] = 1 /\ ~closed(hnd[c]) /\ hnd[c] \in ShimHeld)
               /\ pc[c] = "shimdone" =>
                      (released[hnd[c]] = 1 /\ closed(hnd[c]))
               /\ (pc[c] = "unlock" /\ ncalls[c] = 1) =>
                      (released[hnd[c]] = 1 /\ closed(hnd[c]) /\ hnd[c] \notin ShimHeld)
               /\ pc[c] \in {"inflight", "null", "shimdone", "unlock"} =>
                      /\ m[hnd[c]] = c
                      /\ \A d \in Callers :
                             (d # c /\ hnd[d] = hnd[c]) => pc[d] = "lock"
    /\ comshim = Cardinality(ShimHeld)

\* A Close has released the interface and not yet nulled the pointer, while
\* another caller waits for the handle.
C16_Witness ==
    \E c, d \in Callers :
        /\ op[c] = "Close" /\ pc[c] = "null" /\ released[hnd[c]] = 1
        /\ d # c /\ hnd[d] = hnd[c] /\ pc[d] = "lock"

\* A step of caller c inside an accessor or a cast.
ReaderStep(c) ==
    /\ pc'[c] # pc[c]
    /\ (op[c] \in Accessors \cup Casts) \/ (op'[c] \in Accessors \cup Casts)

\* C17: no step of an accessor or of a cast, whatever its outcome, changes
\* the interface pointer of an existing handle, releases it, or changes what
\* the existing handles hold of the COM count; the only change of the count
\* is the one unit of a handle that a cast has just constructed.
C17_OnlyCloseChanges ==
    [][\A c \in Callers :
          ReaderStep(c) =>
              /\ \A h \in 1..nh :
                     /\ iface'[h] = iface[h]
                     /\ closed(h)' = closed(h)
                     /\ released'[h] = released[h]
                     /\ given'[h] = given[h]
              /\ nh' >= nh
              /\ comshim' = comshim + (nh' - nh)
              /\ (pc'[c] = "unlock" /\ err'[c] # ErrNone) =>
                     (nh' = nh /\ closed(hnd[c])' = closed(hnd[c]))]_vars

\* A cast has failed with a platform error on a handle that is still open.
C17_Witness ==
    \E c \in Callers :
        /\ op[c] \in Casts /\ pc[c] = "unlock" /\ ncalls[c] = 1
        /\ err[c] \in PlatformErrors
        /\ ~closed(hnd[c])

\* The handles that NewObject built around a nil interface pointer.
NilBuilt == {h \in 1..nh : given[h] = NilPtr}

\* C18: a handle built around nil is closed from its creation and is never
\* released; every operation on it returns from the closed check without a
\* platform call, an accessor or cast with ErrClosed and Close with nil; and
\* no step of an operation on it changes the COM count, which keeps the unit
\* NewObject added for it.
C18_NilBuiltClosed ==
    /\ [](/\ \A h \in NilBuilt :
                /\ iface[h] = NilPtr /\ released[h] = 0 /\ refcnt[h] = 0
                /\ \A c \in Callers :
                       hnd[c] = h =>
                           /\ pc[c] \in {"lock", "check", "unlock"}
                           /\ ncalls[c] = 0 /\ reply[c] = NoReply
                           /\ pc[c] = "unlock" =>
                                  /\ ret[c] = ZeroRet
                                  /\ err[c] = IF op[c] = "Close" THEN ErrNone
                                                               ELSE ErrClosed
           /\ comshim >= Cardinality(NilBuilt))
    /\ [][\A c \in Callers :
              (pc'[c] # pc[c] /\ (hnd[c] \in NilBuilt \/ hnd'[c] \in NilBuilt)) =>
                  <<comshim, released, refcnt, iface>>' =
                  <<comshim, released, refcnt, iface>>]_vars

\* Close has returned on a handle built around nil, and the count still
\* holds that handle's unit.
C18_Witness ==
    \E c \in Callers :
        /\ op[c] = "Close" /\ pc[c] = "unlock"
        /\ hnd[c] \in NilBuilt /\ err[c] = ErrNone
        /\ comshim >= 1 /\ \A h \in 1..nh : iface[h] = NilPtr

\* C19: a caller that is not inside an operation holds no handle's mutex,
\* a locked mutex belongs to a caller inside an operation on that handle,
\* and under fair scheduling every invoked operation returns: no caller
\* stays inside an operation for ever.
C19_EveryCallReturns ==
    /\ [](\A h \in Handles :
              /\ m[h] # 0 => (hnd[m[h]] = h /\ pc[m[h]] \notin {"idle", "lock"})
              /\ \A c \in Callers : pc[c] = "idle" => m[h] # c)
    /\ \A c \in Callers : []<>(pc[c] = "idle")

\* Two callers are on one closed handle: one is returning ErrClosed from
\* GUID with the mutex held, the other waits for the mutex.
C19_Witness ==
    \E c, d \in Callers :
        /\ c # d /\ hnd[c] = hnd[d]
        /\ op[c] = "GUID" /\ pc[c] = "unlock" /\ err[c] = ErrClosed
        /\ m[hnd[c]] = c
        /\ pc[d] = "lock"

====
